---- MODULE Spec2Model ----
(***************************************************************************)
(* The KubeCost dashboard (KubeCost app/app.py): the reactive selection    *)
(* state of the page, the request each aggregation helper sends, and what  *)
(* each helper computes from the response of the cost API.                 *)
(*                                                                         *)
(* Representation.                                                         *)
(*  - A dollar amount is an integer number of thousandths of a dollar      *)
(*    (1.0 is 1000, 0.004 is 4), so that round(x, 2) has something to      *)
(*    round.  Amounts are exact decimals: the inputs are chosen so that no *)
(*    sum falls exactly between two cents, where the binary representation *)
(*    of the float decides which way Python rounds.                        *)
(*  - totalEfficiency and COMPUTE_WASTE, which the code formats without    *)
(*    rounding, are binary floating point numbers (see the section on      *)
(*    doubles).                                                            *)
(*  - A key of a response is a sequence of tokens ("_", "/", or a word),   *)
(*    so that startswith("__") and split("/") are computed, not assumed.   *)
(*  - A timestamp "%Y-%m-%dT%H:%M:%SZ" is <<day, hour>>; its order is the  *)
(*    order of the strings.                                                *)
(*  - A Python dict is a function; a missing key is a missing element of   *)
(*    its DOMAIN.                                                          *)
(***************************************************************************)
EXTENDS Integers, Sequences, FiniteSets, TLC

VARIABLES
    window_choice,   \* sl.reactive: the selected window
    filtered_label,  \* sl.reactive: the chart that was clicked, or ""
    filtered_value,  \* sl.reactive: the bar that was clicked, or ""
    op,              \* the helper the component being rendered called, or "idle"
    params,          \* the query parameters of the request that call sent
    response,        \* res.json()["data"] of that request
    outcome,         \* "ok", or the exception the call raised
    result,          \* what the call returned (NoResult when it raised)
    requests         \* the number of requests.get calls the call made

vars == <<window_choice, filtered_label, filtered_value,
          op, params, response, outcome, result, requests>>

ui == <<window_choice, filtered_label, filtered_value>>

NoResult == "none"

(***************************************************************************)
(* Module-level tables.                                                    *)
(***************************************************************************)
breakdown_to_param ==
    [x \in {"Top Projects", "User", "Organization"} |->
        CASE x = "Top Projects" -> "dominodatalab_com_project_name"
          [] x = "User"         -> "dominodatalab_com_starting_user_username"
          [] x = "Organization" -> "dominodatalab_com_organization_name"]

window_options == {"Last 30 days", "Last 15 days", "Last week", "Today"}

window_to_param ==
    [x \in window_options |->
        CASE x = "Last 30 days" -> "30d"
          [] x = "Last 15 days" -> "15d"
          [] x = "Last week"    -> "lastweek"
          [] x = "Today"        -> "today"]

(***************************************************************************)
(* Python built-ins.                                                       *)
(***************************************************************************)
\* key.startswith("__")
startswith__(key) == Len(key) >= 2 /\ key[1] = "_" /\ key[2] = "_"

\* round(x, 2) of an amount in thousandths: the nearest cent, a tie going to
\* the even cent.
round2(x) ==
    LET q == x \div 10
        r == x % 10
    IN  IF r < 5 THEN 10 * q
        ELSE IF r > 5 THEN 10 * (q + 1)
        ELSE IF q % 2 = 0 THEN 10 * q ELSE 10 * (q + 1)

RECURSIVE SumSet(_, _)
\* sum(f[x] for x in S)
SumSet(f, S) ==
    IF S = {} THEN 0
    ELSE LET x == CHOOSE y \in S : TRUE
         IN  f[x] + SumSet(f, S \ {x})

(***************************************************************************)
(* The selection state and its handlers.                                   *)
(***************************************************************************)
BarNames == {"", "alice", "p1"}

\* app.py 72-75
set_global_filters(click_data) ==
    /\ filtered_label' = click_data.seriesName
    /\ filtered_value' = click_data.name

\* clear_filters that forgets the value
clear_filters_label_only ==
    /\ filtered_label' = ""
    /\ UNCHANGED filtered_value

\* app.py 78-80
clear_filters ==
    /\ filtered_label' = ""
    /\ filtered_value' = ""

\* app.py 83-86: the parameters after set_filter(params); the filter
\* label[<param_label>]:"<value>" is the triple of its parts
set_filter(p) ==
    IF filtered_value # "" /\ filtered_label # ""
    THEN LET param_label == breakdown_to_param[filtered_label]
         IN  p @@ [filter |-> <<"label", param_label, filtered_value>>]
    ELSE p

(***************************************************************************)
(* get_cost_per_breakdown and get_overall_cost.                            *)
(***************************************************************************)
\* How a helper ends once its one requests.get has returned: with a value, or
\* with an exception that nothing in the module catches.
Return(v) == [outcome |-> "ok", result |-> v, requests |-> 1]
Raise(e)  == [outcome |-> e, result |-> NoResult, requests |-> 1]

\* get_cost_per_breakdown without the test of the prefix
cost_per_breakdown_unfiltered(data) ==
    IF Len(data) = 0 THEN Raise("IndexError")
    ELSE LET d == data[1]
         IN  Return([key \in DOMAIN d |-> round2(d[key].totalCost)])

\* app.py 104-109, from res.json()["data"]
cost_per_breakdown(data) ==
    IF Len(data) = 0 THEN Raise("IndexError")
    ELSE LET d == data[1]
         IN  Return([key \in {k \in DOMAIN d : ~startswith__(k)} |->
                        round2(d[key].totalCost)])

\* get_overall_cost that answers an empty data with an empty mapping
overall_cost_empty_ok(data) ==
    IF Len(data) = 0 THEN Return(<<>>)
    ELSE LET d == data[1]
         IN  Return([key \in DOMAIN d |-> round2(d[key].totalCost)])

\* app.py 122-125, from res.json()["data"]
overall_cost(data) ==
    IF Len(data) = 0 THEN Raise("IndexError")
    ELSE LET d == data[1]
         IN  Return([key \in DOMAIN d |-> round2(d[key].totalCost)])

(***************************************************************************)
(* get_daily_cost.                                                         *)
(***************************************************************************)
cpu_costs == {"cpuCost", "cpuCostAdjustment", "gpuCost", "gpuCostAdjustment"}
storage_costs == {"pvCost", "pvCostAdjustment", "ramCost", "ramCostAdjustment"}
costs == [Compute |-> cpu_costs, Storage |-> storage_costs]

\* The order of two timestamp strings (and of two date strings): the first
\* place where they differ decides, and a proper prefix comes first.
Before(a, b) ==
    \/ \E i \in 1..Len(a) :
          /\ i <= Len(b)
          /\ a[i] < b[i]
          /\ \A j \in 1..(i - 1) : a[j] = b[j]
    \/ Len(a) < Len(b) /\ \A j \in 1..Len(a) : a[j] = b[j]

\* app.py 128-135: "2023-04-28T15:05:00Z" -> "2023-04-28"
to_date(date_string) == <<date_string[1]>>

\* The index of a frame after sort_index / groupby: S in ascending order.
sort_index(S) ==
    [n \in 1..Cardinality(S) |->
        CHOOSE s \in S : Cardinality({t \in S : Before(t, s)}) = n - 1]

Max(S) == CHOOSE x \in S : \A y \in S : y <= x

\* app.py 152: alocs = [day for day in data if day]
NonEmpty(day) == DOMAIN day # {}
alocs_of(data) == SelectSeq(data, NonEmpty)

\* The (window, key) pairs the loops of app.py 162-163 visit.
Visited(alocs) ==
    UNION {{<<i, key>> : key \in DOMAIN alocs[i]} : i \in 1..Len(alocs)}

\* app.py 166-170: what one entry adds to daily_costs[start][cost_type]
Added(values, cost_type) == round2(SumSet(values, costs[cost_type]))

\* app.py 155-170: daily_costs after the loops
daily_costs_of(alocs) ==
    LET V == Visited(alocs)
        starts == {alocs[v[1]][v[2]].start : v \in V}
    IN  [start \in starts |->
            [cost_type \in DOMAIN costs |->
                SumSet([v \in V |-> Added(alocs[v[1]][v[2]], cost_type)],
                       {v \in V : alocs[v[1]][v[2]].start = start})]]

\* the frame sorted by its index, the cumsum of both columns forgotten
cumsum_forgotten(daily_costs) ==
    LET idx == sort_index(DOMAIN daily_costs)
    IN  [n \in 1..Len(idx) |->
            [index   |-> idx[n],
             Compute |-> daily_costs[idx[n]].Compute,
             Storage |-> daily_costs[idx[n]].Storage]]

\* app.py 172-174: the frame sorted by its index, both columns cumulated
cumsum(daily_costs) ==
    LET idx == sort_index(DOMAIN daily_costs)
    IN  [n \in 1..Len(idx) |->
            [index   |-> idx[n],
             Compute |-> SumSet([m \in 1..n |-> daily_costs[idx[m]].Compute], 1..n),
             Storage |-> SumSet([m \in 1..n |-> daily_costs[idx[m]].Storage], 1..n)]]

\* app.py 178-179: the index mapped to dates, then groupby(level=0).max()
rollup(df) ==
    LET rows == {df[n] : n \in 1..Len(df)}
        idx == sort_index({to_date(r.index) : r \in rows})
    IN  [n \in 1..Len(idx) |->
            [index   |-> idx[n],
             Compute |-> Max({r.Compute : r \in {q \in rows : to_date(q.index) = idx[n]}}),
             Storage |-> Max({r.Storage : r \in {q \in rows : to_date(q.index) = idx[n]}})]]

\* app.py 150-180, from res.json()["data"] and the window parameter
daily_cost(data, window) ==
    LET alocs == alocs_of(data)
    IN  IF \E v \in Visited(alocs) :
              ~((cpu_costs \cup storage_costs \cup {"start"}) \subseteq DOMAIN alocs[v[1]][v[2]])
        THEN Raise("KeyError")      \* values[key], line 169
        ELSE IF Visited(alocs) = {}
        THEN Raise("KeyError")      \* df["Compute"] of a frame without columns, line 173
        ELSE LET df == cumsum(daily_costs_of(alocs))
             IN  Return(IF window # "today" THEN rollup(df) ELSE df)

(***************************************************************************)
(* Doubles.  A non-negative float is [int |-> its integer part, frac |->   *)
(* the bits after the binary point, without trailing zeros]; every         *)
(* operation is the exact one followed by the rounding of IEEE 754         *)
(* binary64 (round to nearest, ties to even).                              *)
(***************************************************************************)
Significand == 53

RECURSIVE BitLength(_)
BitLength(n) == IF n = 0 THEN 0 ELSE 1 + BitLength(n \div 2)

\* bits without its trailing zeros
Strip(bits) ==
    IF \E i \in 1..Len(bits) : bits[i] = 1
    THEN SubSeq(bits, 1, CHOOSE i \in 1..Len(bits) :
                            bits[i] = 1 /\ \A j \in (i + 1)..Len(bits) : bits[j] = 0)
    ELSE <<>>

Canon(x) == [int |-> x.int, frac |-> Strip(x.frac)]

\* the number of zeros that open bits
LeadingZeros(bits) ==
    IF \E i \in 1..Len(bits) : bits[i] = 1
    THEN (CHOOSE i \in 1..Len(bits) :
             bits[i] = 1 /\ \A j \in 1..(i - 1) : bits[j] = 0) - 1
    ELSE Len(bits)

\* how many bits after the point a double of this size keeps
Kept(x) ==
    IF x.int > 0 THEN Significand - BitLength(x.int)
    ELSE LeadingZeros(x.frac) + Significand

\* x plus one unit in its last place: the carry stops at the last 0 bit
AddUlp(x) ==
    IF \E i \in 1..Len(x.frac) : x.frac[i] = 0
    THEN LET p == CHOOSE i \in 1..Len(x.frac) :
                     x.frac[i] = 0 /\ \A j \in (i + 1)..Len(x.frac) : x.frac[j] = 1
         IN  [int  |-> x.int,
              frac |-> [i \in 1..Len(x.frac) |->
                          IF i < p THEN x.frac[i] ELSE IF i = p THEN 1 ELSE 0]]
    ELSE [int |-> x.int + 1, frac |-> [i \in 1..Len(x.frac) |-> 0]]

\* the double nearest to the exact value x
RoundToDouble(x) ==
    LET keep == Kept(x)
    IN  IF Len(x.frac) <= keep THEN Canon(x)
        ELSE LET guard  == x.frac[keep + 1]
                 sticky == \E i \in (keep + 2)..Len(x.frac) : x.frac[i] = 1
                 last   == IF keep = 0 THEN x.int % 2 ELSE x.frac[keep]
                 down   == [int |-> x.int, frac |-> SubSeq(x.frac, 1, keep)]
             IN  Canon(IF guard = 1 /\ (sticky \/ last = 1) THEN AddUlp(down) ELSE down)

\* One step of the long division of rem by d: the next bit after the point,
\* unless the division is over or sig significant bits are already known.
DivisionStep(s) ==
    IF s.rem = 0 \/ s.sig >= Significand THEN s
    ELSE LET b == IF 2 * s.rem >= s.d THEN 1 ELSE 0
         IN  [rem  |-> 2 * s.rem - b * s.d,
              d    |-> s.d,
              frac |-> Append(s.frac, b),
              sig  |-> IF s.sig > 0 \/ b = 1 THEN s.sig + 1 ELSE 0]

DivisionSteps(s) ==
    DivisionStep(DivisionStep(DivisionStep(DivisionStep(
    DivisionStep(DivisionStep(DivisionStep(DivisionStep(s))))))))

RECURSIVE LongDivision(_)
LongDivision(s) ==
    IF s.rem = 0 \/ s.sig >= Significand THEN s
    ELSE LongDivision(DivisionSteps(s))

\* float("n/d" written as a decimal): the double nearest to n/d
FromDecimal(n, d) ==
    LET q    == LongDivision([rem |-> n % d, d |-> d, frac |-> <<>>,
                              sig |-> BitLength(n \div d)])
        down == [int |-> n \div d, frac |-> q.frac]
        last == IF q.frac = <<>> THEN (n \div d) % 2 ELSE q.frac[Len(q.frac)]
    IN  Canon(IF 2 * q.rem > d \/ (2 * q.rem = d /\ last = 1)
              THEN AddUlp(down) ELSE down)

\* 1 - x for a double x in [0, 1]
OneMinus(x) ==
    LET f == Strip(x.frac)
    IN  IF x.int >= 1 THEN [int |-> 0, frac |-> <<>>]
        ELSE IF f = <<>> THEN [int |-> 1, frac |-> <<>>]
        ELSE RoundToDouble(
                 [int |-> 0,
                  frac |-> [i \in 1..Len(f) |-> IF i = Len(f) THEN 1 ELSE 1 - f[i]]])

\* One step of bits * k, from the last bit to the first: todo bits are left,
\* carry comes out of the places already done, frac is their product.
TimesStep(s) ==
    IF s.todo = 0 THEN s
    ELSE LET t == s.bits[s.todo] * s.k + s.carry
         IN  [bits  |-> s.bits,
              k     |-> s.k,
              todo  |-> s.todo - 1,
              carry |-> t \div 2,
              frac  |-> <<t % 2>> \o s.frac]

TimesSteps(s) ==
    TimesStep(TimesStep(TimesStep(TimesStep(
    TimesStep(TimesStep(TimesStep(TimesStep(s))))))))

RECURSIVE TimesBits(_)
TimesBits(s) == IF s.todo = 0 THEN s ELSE TimesBits(TimesSteps(s))

\* x * k for a double x and a small integer k
Times(x, k) ==
    LET p == TimesBits([bits |-> x.frac, k |-> k, todo |-> Len(x.frac),
                        carry |-> 0, frac |-> <<>>])
    IN  RoundToDouble([int |-> x.int * k + p.carry, frac |-> p.frac])

(***************************************************************************)
(* get_execution_cost_table.                                               *)
(***************************************************************************)
RECURSIVE split(_, _)
\* key.split(sep)
split(key, sep) ==
    IF \E i \in 1..Len(key) : key[i] = sep
    THEN LET i == CHOOSE j \in 1..Len(key) :
                     key[j] = sep /\ \A m \in 1..(j - 1) : key[m] # sep
         IN  <<SubSeq(key, 1, i - 1)>> \o split(SubSeq(key, i + 1, Len(key)), sep)
    ELSE <<key>>

\* app.py 89-91: "%Y-%m-%dT%H:%M:%SZ" -> "%m/%d %I:%M %p"
format_datetime(dt_str) ==
    [md |-> dt_str[1],
     I  |-> IF dt_str[2] % 12 = 0 THEN 12 ELSE dt_str[2] % 12,
     p  |-> IF dt_str[2] < 12 THEN "AM" ELSE "PM"]

cpu_cost_key == {"cpuCost", "gpuCost"}
gpu_cost_key == {"cpuCostAdjustment", "gpuCostAdjustment"}
storage_cost_keys == {"pvCost", "ramCost", "pvCostAdjustment", "ramCostAdjustment"}

\* f"${x}"
Dollar(x) == <<"$", x>>

\* app.py 218: f"{((1-key_data['totalEfficiency'])*100)}%"; the text of a float
\* determines the float, which stands for it here
waste_of(key_data) == <<Times(OneMinus(key_data.totalEfficiency), 100), "%">>

\* app.py 210-233 and 235-237: the row of one key
exec_row(key, key_data) ==
    LET parts        == split(key, "/")
        cpu_cost     == round2(SumSet(key_data, cpu_cost_key))
        gpu_cost     == round2(SumSet(key_data, gpu_cost_key))
        compute_cost == round2(cpu_cost + gpu_cost)
        storage_cost == round2(SumSet(key_data, storage_cost_keys))
    IN  [TYPE          |-> parts[2],
         USER          |-> parts[3],
         START         |-> format_datetime(key_data.start),
         END           |-> format_datetime(key_data.end),
         CPU_COST      |-> Dollar(cpu_cost),
         GPU_COST      |-> Dollar(gpu_cost),
         COMPUTE_COST  |-> Dollar(compute_cost),
         COMPUTE_WASTE |-> waste_of(key_data),
         STORAGE_COST  |-> Dollar(storage_cost),
         WORKLOAD_ID   |-> parts[1],
         PROJECT_ID    |-> parts[4]]

\* app.py 199-238, from res.json()["data"]; the frame is the set of its rows
execution_cost_table(data) ==
    IF Len(data) = 0 THEN Raise("IndexError")
    ELSE LET aloc_data == data[1]
             keys == {key \in DOMAIN aloc_data : ~startswith__(key)}
         IN  IF \E key \in keys : Len(split(key, "/")) # 4
             THEN Raise("ValueError")     \* the unpacking of line 210
             ELSE Return({exec_row(key, aloc_data[key]) : key \in keys})

(***************************************************************************)
(* The responses the cost API is taken to give.                            *)
(***************************************************************************)
MaxKeys == 2      \* keys of an accumulated record
MaxWindows == 3   \* windows of a window series

Idle == <<"_", "_", "idle", "_", "_">>

Dicts(Keys, Values) ==
    UNION {[KS -> Values] : KS \in {K \in SUBSET Keys : Cardinality(K) <= MaxKeys}}

\* data of an accumulate=True request: no record, or one
Accumulated(Keys, Values) ==
    {<<>>} \cup {<<d>> : d \in Dicts(Keys, Values)}

TotalCosts == {[totalCost |-> c] : c \in {12504, 3256, 98}}

BreakdownResponses == Accumulated({<<"alice">>, <<"_", "x">>, Idle}, TotalCosts)

OverallResponses == Accumulated({<<"Compute">>, <<"Storage">>, Idle}, TotalCosts)

Zero == [f \in cpu_costs \cup storage_costs |-> 0]

\* the starts of windows: every hour of day 0, and midnight of the other days
Days == {0, 1}
Hours == {0, 9, 15}
TimeStamps == {t \in Days \X Hours : t[1] = 0 \/ t[2] = 0}

ExecCosts ==
    {[cpuCost |-> 1000, pvCost |-> 500, ramCost |-> 250] @@ Zero,
     [cpuCost |-> 4, cpuCostAdjustment |-> 4, pvCost |-> 4, ramCost |-> 4] @@ Zero,
     [gpuCost |-> 2000, gpuCostAdjustment |-> -496] @@ Zero}

ExecEntries ==
    {c @@ [start |-> <<0, 9>>, end |-> <<0, 15>>,
           totalEfficiency |-> FromDecimal(e, 1000)] :
        c \in ExecCosts, e \in {800, 500}}

ExecResponses ==
    Accumulated({<<"w1", "/", "Job", "/", "alice", "/", "p1">>,
                 <<"w2", "/", "App", "/", "bob", "/", "p2">>,
                 <<"w3", "/", "Job", "/", "a", "/", "b", "/", "p3">>,
                 Idle},
                ExecEntries)

DailyCosts ==
    {[cpuCost |-> 10000, pvCost |-> 500, ramCost |-> 250] @@ Zero,
     [gpuCost |-> 15000, ramCost |-> 1000] @@ Zero,
     [cpuCostAdjustment |-> -7000, pvCostAdjustment |-> -200] @@ Zero}

T0 == <<0, 0>>
Paid == [cpuCost |-> 10000, pvCost |-> 500, ramCost |-> 250] @@ Zero
SubCent == [cpuCost |-> 4, pvCost |-> 4] @@ Zero
NoRam == [f \in (cpu_costs \cup storage_costs) \ {"ramCost"} |-> 0]

At(t, c) == c @@ [start |-> t]

\* One window: empty, or one workload, or (at T0) a workload of sub-cent cost,
\* one without its ramCost, the idle allocation alone or beside a workload.
DailyWindows ==
    {<<>>}
    \cup {<<"alice">> :> At(t, c) : t \in TimeStamps, c \in DailyCosts}
    \cup {<<"alice">> :> At(T0, SubCent),
          <<"alice">> :> At(T0, NoRam),
          Idle :> At(T0, Paid),
          (<<"alice">> :> At(T0, Paid)) @@ (Idle :> At(T0, Paid))}

DailyResponses(n) == UNION {[1..m -> DailyWindows] : m \in 0..n}

(***************************************************************************)
(* The page: the handlers of its widgets, and the calls of a render.       *)
(***************************************************************************)
Init ==
    /\ window_choice = "Last 30 days"
    /\ filtered_label = ""
    /\ filtered_value = ""
    /\ op = "idle"
    /\ params = <<>>
    /\ response = <<>>
    /\ outcome = "none"
    /\ result = NoResult
    /\ requests = 0

\* what a call leaves: its request, the response, and how it ended
Called(name, p, data, end) ==
    /\ op' = name
    /\ params' = set_filter(p)
    /\ response' = data
    /\ outcome' = end.outcome
    /\ result' = end.result
    /\ requests' = end.requests
    /\ UNCHANGED ui

\* app.py 361: sl.Select(label="Window", value=window_choice, ...)
select_window ==
    /\ op = "idle"
    /\ \E w \in window_options : window_choice' = w
    /\ UNCHANGED <<filtered_label, filtered_value,
                   op, params, response, outcome, result, requests>>

\* app.py 349: a click on a bar of one of the three breakdown charts
on_click ==
    /\ op = "idle"
    /\ \E name \in DOMAIN breakdown_to_param, bar \in BarNames :
          set_global_filters([seriesName |-> name, name |-> bar])
    /\ UNCHANGED <<window_choice, op, params, response, outcome, result, requests>>

\* app.py 362-366: the button is there when both filters are set
on_clear ==
    /\ op = "idle"
    /\ filtered_label # "" /\ filtered_value # ""
    /\ clear_filters
    /\ UNCHANGED <<window_choice, op, params, response, outcome, result, requests>>

\* app.py 94-109, called by CostBreakdown for each chart (line 316)
get_cost_per_breakdown ==
    /\ op = "idle"
    /\ \E name \in DOMAIN breakdown_to_param, data \in BreakdownResponses :
          Called("get_cost_per_breakdown",
                 [window     |-> window_to_param[window_choice],
                  aggregate  |-> <<"label:", breakdown_to_param[name]>>,
                  accumulate |-> TRUE],
                 data, cost_per_breakdown(data))

\* app.py 112-125, called by TopLevelCosts
get_overall_cost ==
    /\ op = "idle"
    /\ \E data \in OverallResponses :
          Called("get_overall_cost",
                 [window     |-> window_to_param[window_choice],
                  aggregate  |-> "category",
                  accumulate |-> TRUE],
                 data, overall_cost(data))

\* app.py 138-180, called by DailyCostBreakdown
get_daily_cost(Responses) ==
    /\ op = "idle"
    /\ \E data \in Responses :
          LET window == window_to_param[window_choice]
          IN  Called("get_daily_cost", [window |-> window],
                     data, daily_cost(data, window))

\* app.py 183-238, called by Executions, which Page renders only under
\* "if filtered_value.value" (line 374)
get_execution_cost_table ==
    /\ op = "idle"
    /\ filtered_value # ""
    /\ \E data \in ExecResponses :
          Called("get_execution_cost_table",
                 [window     |-> window_to_param[window_choice],
                  aggregate  |-> <<"label:dominodatalab_com_workload_id",
                                   "label:dominodatalab_com_workload_type",
                                   "label:dominodatalab_com_starting_user_username",
                                   "label:dominodatalab_com_project_id">>,
                  accumulate |-> TRUE],
                 data, execution_cost_table(data))

\* The component is drawn, or the exception has surfaced; what the call
\* built is dropped, and the page waits for the next call or input.
rendered ==
    /\ op # "idle"
    /\ op' = "idle"
    /\ params' = <<>>
    /\ response' = <<>>
    /\ outcome' = "none"
    /\ result' = NoResult
    /\ requests' = 0
    /\ UNCHANGED ui

\* The page with every widget; the daily chart on series of at most one window.
Next ==
    \/ select_window
    \/ on_click
    \/ on_clear
    \/ get_cost_per_breakdown
    \/ get_overall_cost
    \/ get_daily_cost(DailyResponses(1))
    \/ get_execution_cost_table
    \/ rendered

Spec == Init /\ [][Next]_vars

\* The daily chart alone, on every window series, under each window selection.
NextDaily ==
    \/ select_window
    \/ get_daily_cost(DailyResponses(MaxWindows))
    \/ rendered

SpecDaily == Init /\ [][NextDaily]_vars

(***************************************************************************)
(* Properties.                                                             *)
(***************************************************************************)
\* v is x rounded to 2 decimal places: a whole number of cents, nearest to x
Rounded2(v, x) == v % 10 = 0 /\ v - x <= 5 /\ x - v <= 5

Helpers == {"get_cost_per_breakdown", "get_overall_cost",
            "get_daily_cost", "get_execution_cost_table"}

\* C1: whenever get_cost_per_breakdown got a record as data[0], it returns a
\* mapping whose keys are exactly the keys of the record that do not start
\* with "__", each with the totalCost of that key rounded to 2 decimal places.
C1_BreakdownKeysAndRounding ==
    (op = "get_cost_per_breakdown" /\ Len(response) > 0) =>
        /\ outcome = "ok"
        /\ DOMAIN result = {k \in DOMAIN response[1] : ~startswith__(k)}
        /\ \A k \in DOMAIN result : Rounded2(result[k], response[1][k].totalCost)

\* C1 witness: a record with a metadata key and a key whose totalCost is not
\* a whole number of cents has been broken down.
C1_Witness ==
    /\ op = "get_cost_per_breakdown" /\ outcome = "ok" /\ Len(response) > 0
    /\ \E k \in DOMAIN response[1] : startswith__(k)
    /\ \E k \in DOMAIN result : result[k] # response[1][k].totalCost

\* C7: when data is empty, get_cost_per_breakdown, get_overall_cost and
\* get_execution_cost_table end in the exception of data[0] (DataUnavailable),
\* return nothing, and have sent exactly one request.
C7_EmptyDataRaisesOnce ==
    (op \in {"get_cost_per_breakdown", "get_overall_cost", "get_execution_cost_table"}
        /\ Len(response) = 0) =>
        /\ outcome = "IndexError"
        /\ result = NoResult
        /\ requests = 1

\* C7 witness: get_overall_cost got an empty data and raised.
C7_Witness ==
    op = "get_overall_cost" /\ Len(response) = 0 /\ outcome = "IndexError"

\* C10, the state part: the request of every call carries a filter exactly
\* when both filtered_label and filtered_value are set, the filter is then the
\* parameter of that label with that value, and get_execution_cost_table is
\* only called with it.
C10_FilterOfRequest ==
    op \in Helpers =>
        /\ ("filter" \in DOMAIN params) <=> (filtered_label # "" /\ filtered_value # "")
        /\ "filter" \in DOMAIN params =>
              params.filter = <<"label", breakdown_to_param[filtered_label], filtered_value>>
        /\ op = "get_execution_cost_table" => "filter" \in DOMAIN params

\* C10, the step part: the filters change only while no call is under way, to
\* the chart and the bar of a click, or to nothing; and once they are nothing
\* they stay so until a click.
C10_FiltersChangeByClickOrClear ==
    (filtered_label' # filtered_label \/ filtered_value' # filtered_value) =>
        /\ op = "idle" /\ op' = "idle"
        /\ \/ filtered_label' \in DOMAIN breakdown_to_param /\ filtered_value' \in BarNames
           \/ filtered_label' = "" /\ filtered_value' = ""

EntryAt(data, v) == data[v[1]][v[2]]

CostFields == cpu_costs \cup storage_costs

\* Every cost component of every entry is non-negative (well-formed input).
NonNegative(data) ==
    \A v \in Visited(data) :
        \A f \in CostFields \cap DOMAIN EntryAt(data, v) : EntryAt(data, v)[f] >= 0

\* C2: on a window series whose cost components are all non-negative, the
\* rows get_daily_cost returns, in their order, never decrease in Compute nor
\* in Storage, with the daily rollup and without.
C2_CumulativeNonDecreasing ==
    (op = "get_daily_cost" /\ outcome = "ok" /\ NonNegative(response)) =>
        \A n \in 1..(Len(result) - 1) :
            /\ result[n].Compute <= result[n + 1].Compute
            /\ result[n].Storage <= result[n + 1].Storage

\* C2 witness: without the rollup, three rows came out of non-negative
\* windows that the API returned out of order, and the columns grew.
C2_Witness ==
    /\ op = "get_daily_cost" /\ outcome = "ok" /\ NonNegative(response)
    /\ params.window = "today"
    /\ Len(result) = 3 /\ Len(response) = 3
    /\ \A i \in 1..3 : <<"alice">> \in DOMAIN response[i]
    /\ Before(response[2][<<"alice">>].start, response[1][<<"alice">>].start)
    /\ result[1].Compute < result[2].Compute
    /\ result[2].Storage < result[3].Storage

\* The index T of a row covers the start of an entry: the start is not after
\* T, or not after the day T when T is a date.
Covers(T, start) ==
    IF Len(T) = 1 THEN ~Before(T, to_date(start)) ELSE ~Before(T, start)

\* The sum of the constituent cost fields of cost_type over the entries that
\* the index T covers.
CostUpTo(data, T, cost_type) ==
    SumSet([v \in Visited(data) |-> SumSet(EntryAt(data, v), costs[cost_type])],
           {v \in Visited(data) : Covers(T, EntryAt(data, v).start)})

\* C3: in the series get_daily_cost returns for well-formed windows, the value
\* of each cost type at T is the sum of its constituent cost fields over all
\* entries of all non-empty windows whose start is at most T.
C3_ValueIsSumOfFields ==
    (op = "get_daily_cost" /\ outcome = "ok" /\ NonNegative(response)) =>
        \A n \in 1..Len(result) :
            \A cost_type \in DOMAIN costs :
                result[n][cost_type] = CostUpTo(response, result[n].index, cost_type)

\* The cumulative value the frame holds at the start s, before any rollup.
CumulativeAt(data, s, cost_type) ==
    SumSet([v \in Visited(data) |->
               round2(SumSet(EntryAt(data, v), costs[cost_type]))],
           {v \in Visited(data) : ~Before(s, EntryAt(data, v).start)})

Starts(data) == {EntryAt(data, v).start : v \in Visited(data)}

Ascending(df) == \A n \in 1..(Len(df) - 1) : Before(df[n].index, df[n + 1].index)

\* What C4 says of the frame df returned for data under the window parameter.
RolledUp(df, data, window) ==
    IF window # "today"
    THEN /\ {df[n].index : n \in 1..Len(df)} = {to_date(s) : s \in Starts(data)}
         /\ Ascending(df)
         /\ \A n \in 1..Len(df) :
                \A cost_type \in DOMAIN costs :
                    df[n][cost_type] =
                        Max({CumulativeAt(data, s, cost_type) :
                                s \in {t \in Starts(data) : to_date(t) = df[n].index}})
    ELSE /\ {df[n].index : n \in 1..Len(df)} = Starts(data)
         /\ Ascending(df)

\* C4: unless the window is "today", get_daily_cost returns one row per
\* calendar day of the input, ascending by date, whose value per cost type is
\* the greatest cumulative value among that day's windows; for "today" it
\* returns one row per distinct start.
C4_ReturnsRollup ==
    op = "get_daily_cost" =>
        outcome = "ok" /\ RolledUp(result, response, params.window)

\* The part of C4 that holds: every frame get_daily_cost does return is
\* rolled up as C4 says.
RollupOfReturnedFrames ==
    (op = "get_daily_cost" /\ outcome = "ok") =>
        RolledUp(result, response, params.window)

\* A day whose windows stood at 10, 25 and 18 dollars of Compute has been
\* rolled up to 25.
RollupExample ==
    /\ op = "get_daily_cost" /\ outcome = "ok" /\ params.window # "today"
    /\ {CumulativeAt(response, s, "Compute") : s \in Starts(response)}
           = {10000, 25000, 18000}
    /\ CumulativeAt(response, <<0, 15>>, "Compute") = 18000
    /\ Len(result) = 1
    /\ result[1].Compute = 25000

\* C5: when every window of the series is empty, or there is none,
\* get_daily_cost returns an empty series and does not fail.
C5_EmptySeriesGivesEmptyFrame ==
    (op = "get_daily_cost" /\ Visited(response) = {}) =>
        outcome = "ok" /\ result = <<>>

\* data without the entries of metadata keys
WithoutMetadata(data) ==
    [i \in DOMAIN data |->
        [k \in {key \in DOMAIN data[i] : ~startswith__(key)} |-> data[i][k]]]

\* C6: get_overall_cost, get_daily_cost and get_execution_cost_table never
\* iterate an entry whose key starts with "__": it gives no key and no row of
\* the output and adds nothing to any sum.
C6_MetadataNeverIterated ==
    /\ (op = "get_overall_cost" /\ outcome = "ok") =>
           \A k \in DOMAIN result : ~startswith__(k)
    /\ (op = "get_daily_cost" /\ outcome = "ok") =>
           result = IF Visited(WithoutMetadata(response)) = {} THEN <<>>
                    ELSE daily_cost(WithoutMetadata(response), params.window).result
    /\ (op = "get_execution_cost_table" /\ outcome = "ok") =>
           /\ \A row \in result : ~startswith__(row.WORKLOAD_ID)
           /\ Cardinality(result)
                  = Cardinality({k \in DOMAIN response[1] : ~startswith__(k)})

\* C8: for every key workload_id/workload_type/user/project_id that is not
\* metadata, get_execution_cost_table gives one row with the parts of the key
\* as WORKLOAD_ID, TYPE, USER and PROJECT_ID, COMPUTE_COST the four compute
\* fields added (to the cent), STORAGE_COST the four storage fields added (to
\* the cent), and COMPUTE_WASTE (1 - totalEfficiency) * 100 with a % sign: for
\* totalEfficiency 0.8 it reads 20.0%, and for 0.5 it reads 50.0%.
C8_ExecutionRow ==
    (op = "get_execution_cost_table" /\ outcome = "ok") =>
        \A key \in {k \in DOMAIN response[1] : ~startswith__(k)} :
            LET e == response[1][key]
                parts == split(key, "/")
                rows == {row \in result :
                            /\ row.WORKLOAD_ID = parts[1]
                            /\ row.TYPE = parts[2]
                            /\ row.USER = parts[3]
                            /\ row.PROJECT_ID = parts[4]}
            IN  /\ Cardinality(rows) = 1
                /\ \A row \in rows :
                      /\ row.COMPUTE_COST = Dollar(round2(SumSet(e, cpu_costs)))
                      /\ row.STORAGE_COST = Dollar(round2(SumSet(e, storage_costs)))
                      /\ \A d \in {800, 500} :
                            e.totalEfficiency = FromDecimal(d, 1000) =>
                                row.COMPUTE_WASTE = <<FromDecimal(1000 - d, 10), "%">>

\* data with every cost field an entry lacks set to 0
WithZeros(data) ==
    [i \in DOMAIN data |-> [k \in DOMAIN data[i] |-> data[i][k] @@ Zero]]

\* C9: when an entry lacks a constituent cost field, get_daily_cost counts
\* the field as 0 and still returns a series.
C9_MissingFieldCountsZero ==
    (op = "get_daily_cost"
        /\ \E v \in Visited(response) : ~(CostFields \subseteq DOMAIN EntryAt(response, v))) =>
        /\ outcome = "ok"
        /\ result = daily_cost(WithZeros(response), params.window).result

====
